---- MODULE Spec2Model ----
(***************************************************************************)
(* Model of app.py: the ingest pass over "String Signature.txt" ($PNORI /  *)
(* $PNORS / $PNORC sentences), the construction of the DataFrame df and of *)
(* perfis, and the Dash callback update_figs.                              *)
(*                                                                         *)
(* A line is the list line.split("*")[0].split(","): a sequence of field   *)
(* strings, field i of the code being element i+1 here.                    *)
(* Floats are fixed-point integers: a parsed float is held in hundredths,  *)
(* a depth in units of 0.005 m (so that cell-0.5 stays integral), and a    *)
(* mean is held multiplied by 6 (so that a division by 1, 2 or 3 is        *)
(* exact).  Floating-point rounding is not modelled.                       *)
(***************************************************************************)
EXTENDS Integers, Sequences, FiniteSets, TLC

VARIABLES pc, err,
          recs, blanking, cell_size, press_m, profile,
          line, nread, lastI, lastS,
          df, perfis,
          range_idx, figs

vars == <<pc, err, recs, blanking, cell_size, press_m, profile,
          line, nread, lastI, lastS, df, perfis, range_idx, figs>>

ctx == <<blanking, cell_size, press_m, profile>>

\* Bounds of the model.
MaxLines == 5
MaxIdx == 1

\* np.nan (a value outside every number the model computes) and None.
NaN == -1000000
None == "<None>"

isnan(x) == x = NaN

----------------------------------------------------------------------------
\* float(x) and int(x) on the field strings the model feeds in.  A string
\* outside the table raises ValueError.
FloatVal ==
    ("0.50" :> 50) @@ ("1.00" :> 100) @@ ("2.00" :> 200) @@
    ("12.30" :> 1230) @@ ("3.00" :> 300) @@
    ("80" :> 8000) @@ ("75" :> 7500) @@ ("70" :> 7000) @@
    ("1" :> 100) @@ ("2" :> 200) @@
    ("60" :> 6000) @@ ("55" :> 5500) @@ ("50" :> 5000)

IntVal ==
    ("1" :> 1) @@ ("2" :> 2) @@
    ("60" :> 60) @@ ("55" :> 55) @@ ("50" :> 50) @@
    ("80" :> 80) @@ ("75" :> 75) @@ ("70" :> 70)

f2Raises(x) == x # "" /\ x \notin DOMAIN FloatVal
i2Raises(x) == x # "" /\ x \notin DOMAIN IntVal

f2(x) == IF x # "" THEN FloatVal[x] ELSE NaN
i2(x) == IF x # "" THEN IntVal[x] ELSE NaN

\* Float arithmetic with NaN propagation.
Add(a, b) == IF isnan(a) \/ isnan(b) THEN NaN ELSE a + b

\* Depth with the cell's far edge instead of its centre.
Depth_wholeCell(p, b, cs, cell) ==
    Add(Add(IF isnan(p) THEN NaN ELSE 2 * p, IF isnan(b) THEN NaN ELSE 2 * b),
        IF isnan(cs) THEN NaN ELSE cs * (2 * cell))

\* press_m + blanking + cell_size*(cell-0.5), in units of 0.005 m.
Depth(p, b, cs, cell) ==
    Add(Add(IF isnan(p) THEN NaN ELSE 2 * p, IF isnan(b) THEN NaN ELSE 2 * b),
        IF isnan(cs) THEN NaN ELSE cs * (2 * cell - 1))

----------------------------------------------------------------------------
\* The input lines.
LineI(b5, b6) == <<"$PNORI", "", "", "", "", b5, b6>>
LineS(s2, s10) == <<"$PNORS", "", s2, "", "", "", "", "", "", "", s10>>
LineC(c3, a1, a2, a3, k1, k2, k3) ==
    <<"$PNORC", "", "", c3, "", "", "", "", "", "", "",
      a1, a2, a3, "", k1, k2, k3>>

ConfigLines ==
    { LineI("0.50", "1.00"), LineI("", "2.00"), LineI("0.50", ""),
      LineI("abc", "1.00") }
HeaderLines ==
    { LineS("101500", "12.30"), LineS("9", "3.00"), LineS("093015", "") }
CellLines ==
    { LineC("2", "80", "75", "70", "60", "55", "50"),
      LineC("1", "", "75", "", "60", "", "50"),
      LineC("1", "", "", "", "", "", ""),
      LineC("", "80", "75", "70", "60", "55", "50"),
      LineC("2", "80", "75", "70", "60", "abc", "50"),
      <<"$PNORC", "", "", "2">> }
OtherLines == { <<"$PNORE", "", "">> }

Lines == ConfigLines \cup HeaderLines \cup CellLines \cup OtherLines

startswith(l, tag) == l[1] = tag

----------------------------------------------------------------------------
Init ==
    /\ pc = "ingest"
    /\ err = "none"
    /\ recs = <<>>
    /\ blanking = NaN
    /\ cell_size = NaN
    /\ press_m = NaN
    /\ profile = None
    /\ line = <<>>
    /\ nread = 0
    /\ lastI = <<>>
    /\ lastS = <<>>
    /\ df = <<>>
    /\ perfis = <<>>
    /\ range_idx = <<>>
    /\ figs = <<>>

\* The exception raised by evaluating, in order, the field accesses and
\* conversions items = << <<i, conv>>, ... >> on the split line l: l[i] out
\* of range raises IndexError, float()/int() on a malformed string raises
\* ValueError; "none" when every item evaluates.
ItemErr(l, it) ==
    IF it[1] + 1 > Len(l) THEN "IndexError"
    ELSE IF it[2] = "f2" /\ f2Raises(l[it[1] + 1]) THEN "ValueError"
    ELSE IF it[2] = "i2" /\ i2Raises(l[it[1] + 1]) THEN "ValueError"
    ELSE "none"

RECURSIVE FirstErr(_, _)
FirstErr(l, items) ==
    IF items = <<>> THEN "none"
    ELSE IF ItemErr(l, Head(items)) # "none" THEN ItemErr(l, Head(items))
    ELSE FirstErr(l, Tail(items))

Raise(e) ==
    /\ pc' = "crashed"
    /\ err' = e

\* if line.startswith("$PNORI"): blanking, cell_size = f2(b[5]), f2(b[6])
HandlePNORI(l) ==
    LET e == FirstErr(l, << <<5, "f2">>, <<6, "f2">> >>) IN
    IF e # "none"
    THEN /\ Raise(e)
         /\ UNCHANGED <<recs, blanking, cell_size, press_m, profile>>
    ELSE /\ blanking' = f2(l[6])
         /\ cell_size' = f2(l[7])
         /\ UNCHANGED <<pc, err, recs, press_m, profile>>

\* The $PNORS branch updating the pressure but not the profile.
HandlePNORS_keepProfile(l) ==
    LET e == FirstErr(l, << <<2, "str">>, <<10, "f2">> >>) IN
    IF e # "none"
    THEN /\ Raise(e)
         /\ UNCHANGED <<recs, blanking, cell_size, press_m, profile>>
    ELSE /\ press_m' = f2(l[11])
         /\ UNCHANGED <<pc, err, recs, blanking, cell_size, profile>>

\* if line.startswith("$PNORS"): profile, press_m = s[2], f2(s[10])
HandlePNORS(l) ==
    LET e == FirstErr(l, << <<2, "str">>, <<10, "f2">> >>) IN
    IF e # "none"
    THEN /\ Raise(e)
         /\ UNCHANGED <<recs, blanking, cell_size, press_m, profile>>
    ELSE /\ profile' = l[3]
         /\ press_m' = f2(l[11])
         /\ UNCHANGED <<pc, err, recs, blanking, cell_size>>

\* The record appended for a $PNORC line that passes the guard.
Rec(l, cell) ==
    [profile |-> profile,
     depth |-> Depth(press_m, blanking, cell_size, cell),
     corr1 |-> i2(l[16]), corr2 |-> i2(l[17]), corr3 |-> i2(l[18]),
     amp1 |-> f2(l[12]), amp2 |-> f2(l[13]), amp3 |-> f2(l[14])]

\* The guard without the test of cell_size.
Dropped_cellOnly(cell) == isnan(cell)

\* The guard of the $PNORC branch: True means "continue" (drop the line).
Dropped(cell) == isnan(cell) \/ isnan(cell_size)

\* if line.startswith("$PNORC"): ...
HandlePNORC(l) ==
    LET e1 == FirstErr(l, << <<3, "i2">> >>)
        e2 == FirstErr(l, << <<15, "i2">>, <<16, "i2">>, <<17, "i2">>,
                             <<11, "f2">>, <<12, "f2">>, <<13, "f2">> >>)
    IN
    IF e1 # "none"
    THEN /\ Raise(e1)
         /\ UNCHANGED <<recs, blanking, cell_size, press_m, profile>>
    ELSE IF Dropped(i2(l[4]))
    THEN UNCHANGED <<pc, err, recs, blanking, cell_size, press_m, profile>>
    ELSE IF e2 # "none"
    THEN /\ Raise(e2)
         /\ UNCHANGED <<recs, blanking, cell_size, press_m, profile>>
    ELSE /\ recs' = Append(recs, Rec(l, i2(l[4])))
         /\ UNCHANGED <<pc, err, blanking, cell_size, press_m, profile>>

\* One iteration of "for line in f".
ReadLine(l) ==
    /\ pc = "ingest"
    /\ nread < MaxLines
    /\ line' = l
    /\ nread' = nread + 1
    /\ lastI' = IF startswith(l, "$PNORI") THEN l ELSE lastI
    /\ lastS' = IF startswith(l, "$PNORS") THEN l ELSE lastS
    /\ IF startswith(l, "$PNORI") THEN HandlePNORI(l)
       ELSE IF startswith(l, "$PNORS") THEN HandlePNORS(l)
       ELSE IF startswith(l, "$PNORC") THEN HandlePNORC(l)
       ELSE UNCHANGED <<pc, err, recs, blanking, cell_size, press_m, profile>>
    /\ UNCHANGED <<df, perfis, range_idx, figs>>

----------------------------------------------------------------------------
\* Python's str order: lexicographic on code points.
Chars ==
    ("101500" :> <<49, 48, 49, 53, 48, 48>>) @@
    ("093015" :> <<48, 57, 51, 48, 49, 53>>) @@
    ("9" :> <<57>>)

RECURSIVE SeqLess(_, _)
SeqLess(a, b) ==
    IF b = <<>> THEN FALSE
    ELSE IF a = <<>> THEN TRUE
    ELSE IF Head(a) # Head(b) THEN Head(a) < Head(b)
    ELSE SeqLess(Tail(a), Tail(b))

StrLess(a, b) == SeqLess(Chars[a], Chars[b])

\* pd.DataFrame(recs): row k of recs gets the index label k-1.
RECURSIVE DataFrame(_)
DataFrame(rs) ==
    IF rs = <<>> THEN <<>>
    ELSE Append(DataFrame(SubSeq(rs, 1, Len(rs) - 1)),
                [index |-> Len(rs) - 1,
                 profile |-> rs[Len(rs)].profile,
                 depth |-> rs[Len(rs)].depth,
                 corr1 |-> rs[Len(rs)].corr1, corr2 |-> rs[Len(rs)].corr2,
                 corr3 |-> rs[Len(rs)].corr3,
                 amp1 |-> rs[Len(rs)].amp1, amp2 |-> rs[Len(rs)].amp2,
                 amp3 |-> rs[Len(rs)].amp3])

KeepDepth(r) == ~isnan(r.depth)

AllDefined(r) ==
    /\ ~isnan(r.depth)
    /\ ~isnan(r.corr1) /\ ~isnan(r.corr2) /\ ~isnan(r.corr3)
    /\ ~isnan(r.amp1) /\ ~isnan(r.amp2) /\ ~isnan(r.amp3)

\* .dropna() without the subset: a row with any unknown field is dropped.
dropna_any(t) == SelectSeq(t, AllDefined)

\* .dropna(subset=["depth"])
dropna(t) == SelectSeq(t, KeepDepth)

\* Row order of .sort_values(["profile","depth"]).
RowLess(a, b) ==
    \/ StrLess(a.profile, b.profile)
    \/ a.profile = b.profile /\ a.depth < b.depth

\* Insert r after every row that is not greater than it (stable).
RECURSIVE InsertRow(_, _)
InsertRow(t, r) ==
    IF t = <<>> THEN <<r>>
    ELSE IF RowLess(r, t[Len(t)])
         THEN Append(InsertRow(SubSeq(t, 1, Len(t) - 1), r), t[Len(t)])
         ELSE Append(t, r)

\* The table left in the order of recs.
sort_values_none(t) == t

RECURSIVE sort_values(_)
sort_values(t) ==
    IF t = <<>> THEN <<>>
    ELSE InsertRow(sort_values(SubSeq(t, 1, Len(t) - 1)), t[Len(t)])

NotNaN(x) == ~isnan(x)

RECURSIVE Sum(_)
Sum(xs) == IF xs = <<>> THEN 0 ELSE Head(xs) + Sum(Tail(xs))

\* The mean with skipna=False: one unknown member makes the mean unknown.
mean_noskip(triple) ==
    IF \E k \in 1..Len(triple) : isnan(triple[k]) THEN NaN
    ELSE (6 * Sum(triple)) \div Len(triple)

\* .mean(axis=1, skipna=True) of one row's triple, times 6.
mean(triple) ==
    LET defined == SelectSeq(triple, NotNaN) IN
    IF defined = <<>> THEN NaN ELSE (6 * Sum(defined)) \div Len(defined)

\* df.profile.unique(): the distinct profiles in order of appearance.
RECURSIVE unique(_)
unique(t) ==
    IF t = <<>> THEN <<>>
    ELSE LET u == unique(SubSeq(t, 1, Len(t) - 1)) IN
         IF \E k \in 1..Len(u) : u[k] = t[Len(t)].profile
         THEN u ELSE Append(u, t[Len(t)].profile)

RECURSIVE InsertStr(_, _)
InsertStr(ps, p) ==
    IF ps = <<>> THEN <<p>>
    ELSE IF StrLess(p, ps[Len(ps)])
         THEN Append(InsertStr(SubSeq(ps, 1, Len(ps) - 1), p), ps[Len(ps)])
         ELSE Append(ps, p)

RECURSIVE sorted(_)
sorted(ps) ==
    IF ps = <<>> THEN <<>>
    ELSE InsertStr(sorted(SubSeq(ps, 1, Len(ps) - 1)), ps[Len(ps)])

\* {p:i for i,p in enumerate(perfis)}[p]
IdxOf(ps, p) == (CHOOSE k \in 1..Len(ps) : ps[k] = p) - 1

\* The table after the two mean columns and the idx column are added.
WithColumns(t, ps) ==
    [k \in 1..Len(t) |->
        [index |-> t[k].index, profile |-> t[k].profile, depth |-> t[k].depth,
         corr1 |-> t[k].corr1, corr2 |-> t[k].corr2, corr3 |-> t[k].corr3,
         amp1 |-> t[k].amp1, amp2 |-> t[k].amp2, amp3 |-> t[k].amp3,
         corr_mean |-> mean(<<t[k].corr1, t[k].corr2, t[k].corr3>>),
         amp_mean |-> mean(<<t[k].amp1, t[k].amp2, t[k].amp3>>),
         idx |-> IdxOf(ps, t[k].profile)]]

\* End of the file: df, the mean columns, perfis and idx are built and the
\* app starts serving.  pd.DataFrame([]) has no "depth" column, so dropna
\* raises KeyError when recs is empty.
BuildDataFrame ==
    /\ pc = "ingest"
    /\ IF recs = <<>>
       THEN /\ Raise("KeyError")
            /\ UNCHANGED <<df, perfis>>
       ELSE LET t == sort_values(dropna(DataFrame(recs)))
                ps == sorted(unique(t))
            IN /\ df' = WithColumns(t, ps)
               /\ perfis' = ps
               /\ pc' = "serving"
               /\ err' = err
    /\ UNCHANGED <<recs, blanking, cell_size, press_m, profile,
                   line, nread, lastI, lastS, range_idx, figs>>

----------------------------------------------------------------------------
\* dsub[col] for one row.
Col(r, col) ==
    CASE col = "corr1" -> r.corr1
      [] col = "corr2" -> r.corr2
      [] col = "corr3" -> r.corr3
      [] col = "corr_mean" -> r.corr_mean
      [] col = "amp1" -> r.amp1
      [] col = "amp2" -> r.amp2
      [] col = "amp3" -> r.amp3
      [] col = "amp_mean" -> r.amp_mean

\* One go.Scatter per group of sub.groupby("profile"): x and y are Series,
\* which carry the index labels of their rows.
Trace(sub, col, p) ==
    LET InGroup(r) == r.profile = p
        dsub == SelectSeq(sub, InGroup)
    IN [name |-> p,
        x |-> [k \in 1..Len(dsub) |-> Col(dsub[k], col)],
        y |-> [k \in 1..Len(dsub) |-> dsub[k].depth],
        index |-> [k \in 1..Len(dsub) |-> dsub[k].index]]

make_fig(sub, col, title, is_corr) ==
    LET keys == sorted(unique(sub)) IN
    [title |-> title,
     data |-> [k \in 1..Len(keys) |-> Trace(sub, col, keys[k])],
     xaxis |-> IF is_corr THEN "Correlation (counts)" ELSE "Amplitude (counts)",
     yaxis |-> "Depth (m)",
     vline |-> IF is_corr THEN <<50>> ELSE <<>>]

\* The slice with the lower handle excluded.
Slice_exclusive(t, s, e) ==
    LET InRange(r) == r.idx > s /\ r.idx <= e IN SelectSeq(t, InRange)

\* sub = df[(df.idx>=s)&(df.idx<=e)]
Slice(t, s, e) ==
    LET InRange(r) == r.idx >= s /\ r.idx <= e IN SelectSeq(t, InRange)

\* The eight figures update_figs returns for the slice sub.
Figures(sub) ==
    << make_fig(sub, "corr1", "Correlation - Beam 1", TRUE),
       make_fig(sub, "corr2", "Correlation - Beam 2", TRUE),
       make_fig(sub, "corr3", "Correlation - Beam 3", TRUE),
       make_fig(sub, "corr_mean", "Correlation MEAN (Beams 1-3)", TRUE),
       make_fig(sub, "amp1", "Amplitude - Beam 1", FALSE),
       make_fig(sub, "amp2", "Amplitude - Beam 2", FALSE),
       make_fig(sub, "amp3", "Amplitude - Beam 3", FALSE),
       make_fig(sub, "amp_mean", "Amplitude MEAN (Beams 1-3)", FALSE) >>

\* The callback on the slider value [s, e].
update_figs(s, e) ==
    /\ pc = "serving"
    /\ range_idx' = <<s, e>>
    /\ figs' = Figures(Slice(df, s, e))
    /\ UNCHANGED <<pc, err, recs, blanking, cell_size, press_m, profile,
                   line, nread, lastI, lastS, df, perfis>>

\* The slider values a request can carry.
Handles == (0 - 1)..MaxIdx

Next ==
    \/ \E l \in Lines : ReadLine(l)
    \/ BuildDataFrame
    \/ \E s, e \in Handles : update_figs(s, e)

Spec == Init /\ [][Next]_vars

----------------------------------------------------------------------------
\* Properties.

\* A step of the ingest loop that reads a $PNORC / $PNORS / $PNORI line.
CellStep == nread' = nread + 1 /\ line'[1] = "$PNORC"
HeaderStep == nread' = nread + 1 /\ line'[1] = "$PNORS"
ConfigStep == nread' = nread + 1 /\ line'[1] = "$PNORI"

\* The cell-index field of the split line l is present and an integer.
KnownIndex(l) == Len(l) >= 4 /\ l[4] # "" /\ l[4] \in DOMAIN IntVal

Val(x) == IF x = "" THEN NaN ELSE FloatVal[x]

\* pressure + blanking + cell_size*(cell_index - 0.5) from the fields of the
\* header line S, the configuration line I and the cell line C (0.005 m).
ExpectedDepth(S, I, C) ==
    IF isnan(Val(S[11])) \/ isnan(Val(I[6])) \/ isnan(Val(I[7])) THEN NaN
    ELSE 2 * Val(S[11]) + 2 * Val(I[6]) + Val(I[7]) * (2 * IntVal[C[4]] - 1)

\* The six correlation and amplitude fields of the split line l are present
\* and each is empty or a well-formed number.
FieldsParse(l) ==
    /\ Len(l) >= 18
    /\ \A k \in {16, 17, 18} : l[k] = "" \/ l[k] \in DOMAIN IntVal
    /\ \A k \in {12, 13, 14} : l[k] = "" \/ l[k] \in DOMAIN FloatVal

EmitsOne(S, I, C) ==
    /\ Len(recs') = Len(recs) + 1
    /\ SubSeq(recs', 1, Len(recs)) = recs
    /\ recs'[Len(recs')].depth = ExpectedDepth(S, I, C)

\* C1 as stated: every well-formed $PNORC line with a known cell_index that
\* is read after at least one $PNORI and one $PNORS line appends exactly one
\* Sample, whose depth is pressure + blanking_distance +
\* cell_size*(cell_index - 0.5).
C1_Original ==
    [][(CellStep /\ KnownIndex(line') /\ FieldsParse(line')
          /\ lastI # <<>> /\ lastS # <<>>)
         => EmitsOne(lastS, lastI, line')]_vars

\* C1 amended: such a line appends exactly one Sample, with that depth
\* (unknown when pressure or blanking_distance is unknown), if the most
\* recent $PNORI line gave a known cell_size and the line's correlation and
\* amplitude fields are present and empty or numeric; otherwise it appends
\* none.
C1_DepthFormula ==
    [][(CellStep /\ KnownIndex(line') /\ lastI # <<>> /\ lastS # <<>>)
         => IF ~isnan(Val(lastI[7])) /\ FieldsParse(line')
            THEN EmitsOne(lastS, lastI, line')
            ELSE recs' = recs]_vars

\* The example of the specification: blanking 0.50, cell_size 1.00, pressure
\* 12.30, cell 2 give depth 14.30 (2860 units of 0.005 m).
C1_Witness ==
    /\ pc = "ingest" /\ recs # <<>>
    /\ line = LineC("2", "80", "75", "70", "60", "55", "50")
    /\ lastI = LineI("0.50", "1.00")
    /\ lastS = LineS("101500", "12.30")
    /\ recs[Len(recs)].depth = 2860

\* C2: a $PNORC line read before any $PNORI line appends no Sample and
\* leaves the configuration and profile context unchanged.
C2_PrematureDropped ==
    [][(CellStep /\ lastI = <<>>) => (recs' = recs /\ ctx' = ctx)]_vars

C2_Witness ==
    /\ pc = "ingest" /\ nread >= 2
    /\ line = LineC("2", "80", "75", "70", "60", "55", "50")
    /\ lastI = <<>> /\ lastS # <<>>
    /\ recs = <<>>

\* C3 as stated: no $PNORC line aborts the ingest pass with a numeric parse
\* failure (an unparseable field resolves to unknown and the pass continues).
C3_ParseNeverFatal ==
    ~(pc = "crashed" /\ err = "ValueError" /\ line[1] = "$PNORC")

\* Every stored record has an unknown depth (this includes no record at all).
NoValidSample == \A k \in 1..Len(recs) : isnan(recs[k].depth)

\* C4 as stated: with zero valid Samples the table construction completes
\* without error and every render yields eight charts without series.
C4_EmptyTableRenders ==
    /\ (pc = "crashed" /\ NoValidSample) => err # "KeyError"
    /\ (pc = "serving" /\ NoValidSample /\ figs # <<>>)
         => (Len(figs) = 8 /\ \A k \in 1..Len(figs) : figs[k].data = <<>>)

\* C5 as stated: a render call with s > e is rejected (no charts answered)
\* or clamped (answered with the charts of a valid range), never answered
\* with the charts of an empty slice.
C5_CrossedRangeRejected ==
    (pc = "serving" /\ df # <<>> /\ range_idx # <<>>
        /\ range_idx[1] > range_idx[2])
      => \/ figs = <<>>
         \/ \E s2, e2 \in 0..(Len(perfis) - 1) :
               s2 <= e2 /\ figs = Figures(Slice(df, s2, e2))

\* C6: adjacent rows of the SampleTable have non-decreasing profile_id in
\* string order and, for equal profile_id, non-decreasing depth.
C6_TableSorted ==
    \A k \in 1..(Len(df) - 1) :
        /\ ~SeqLess(Chars[df[k + 1].profile], Chars[df[k].profile])
        /\ df[k].profile = df[k + 1].profile => df[k].depth <= df[k + 1].depth

\* The table is in another order than the records were emitted, across two
\* profiles and within one.
C6_Witness ==
    /\ pc = "serving"
    /\ \E k \in 1..(Len(df) - 1) :
          df[k].profile # df[k + 1].profile /\ df[k].index > df[k + 1].index

\* The positions <<trace, point>> of a figure's points.
PointPos(fig) ==
    UNION { { <<t, k>> : k \in 1..Len(fig.data[t].index) } :
            t \in 1..Len(fig.data) }

CorrOf(r, b) == CASE b = 1 -> r.corr1 [] b = 2 -> r.corr2 [] b = 3 -> r.corr3

BeamTitle(b) ==
    CASE b = 1 -> "Correlation - Beam 1"
      [] b = 2 -> "Correlation - Beam 2"
      [] b = 3 -> "Correlation - Beam 3"

\* The profile of row r has its position in perfis within [s, e].
Selected(r, s, e) == \E i \in s..e : perfis[i + 1] = r.profile

\* Chart b holds each selected row exactly once, as the point
\* (corr<b>, depth) of the series of its profile, and nothing else.
BeamChartExact(b, s, e) ==
    LET fig == figs[b]
        At(pos) == fig.data[pos[1]].index[pos[2]]
    IN /\ fig.title = BeamTitle(b)
       /\ \A k \in 1..Len(df) :
            Selected(df[k], s, e) =>
              /\ Cardinality({pos \in PointPos(fig) : At(pos) = df[k].index}) = 1
              /\ \A pos \in PointPos(fig) :
                   At(pos) = df[k].index =>
                     /\ fig.data[pos[1]].name = df[k].profile
                     /\ fig.data[pos[1]].x[pos[2]] = CorrOf(df[k], b)
                     /\ fig.data[pos[1]].y[pos[2]] = df[k].depth
       /\ \A pos \in PointPos(fig) :
            \E k \in 1..Len(df) :
               df[k].index = At(pos) /\ Selected(df[k], s, e)

\* C7: for 0 <= s <= e <= n-1 the three per-beam correlation charts hold
\* exactly the rows whose profile index lies in [s, e], each once, corr1
\* in Beam 1, corr2 in Beam 2, corr3 in Beam 3.
C7_SliceExact ==
    (pc = "serving" /\ range_idx # <<>>
        /\ 0 <= range_idx[1] /\ range_idx[1] <= range_idx[2]
        /\ range_idx[2] <= Len(perfis) - 1)
      => \A b \in 1..3 : BeamChartExact(b, range_idx[1], range_idx[2])

\* A full-range render of a table of two profiles.
C7_Witness ==
    /\ pc = "serving" /\ Len(perfis) = 2 /\ Len(df) >= 2
    /\ range_idx = <<0, 1>>
    /\ Len(figs[1].data) = 2

DefinedCount(a, b, c) ==
    (IF isnan(a) THEN 0 ELSE 1) + (IF isnan(b) THEN 0 ELSE 1)
      + (IF isnan(c) THEN 0 ELSE 1)

DefinedSum(a, b, c) ==
    (IF isnan(a) THEN 0 ELSE a) + (IF isnan(b) THEN 0 ELSE b)
      + (IF isnan(c) THEN 0 ELSE c)

\* m (held times 6) is the mean of the defined members of <<a, b, c>>, and
\* is unknown when none is defined.
IsMeanOfDefined(m, a, b, c) ==
    IF DefinedCount(a, b, c) = 0 THEN isnan(m)
    ELSE ~isnan(m) /\ m * DefinedCount(a, b, c) = 6 * DefinedSum(a, b, c)

\* C8: corr_mean and amp_mean of every stored Sample are the arithmetic
\* means of the defined members of their triples, unknown when none is.
C8_MeansOfDefined ==
    \A k \in 1..Len(df) :
        /\ IsMeanOfDefined(df[k].corr_mean, df[k].corr1, df[k].corr2, df[k].corr3)
        /\ IsMeanOfDefined(df[k].amp_mean, df[k].amp1, df[k].amp2, df[k].amp3)

\* A row with two defined correlations (60, unknown, 50: mean 55) and one
\* defined amplitude, and a row whose triples are all unknown.
C8_Witness ==
    /\ pc = "serving"
    /\ \E k \in 1..Len(df) :
          /\ DefinedCount(df[k].corr1, df[k].corr2, df[k].corr3) = 2
          /\ df[k].corr_mean = 6 * 55
          /\ DefinedCount(df[k].amp1, df[k].amp2, df[k].amp3) = 1
    /\ \E k \in 1..Len(df) :
          /\ DefinedCount(df[k].corr1, df[k].corr2, df[k].corr3) = 0
          /\ isnan(df[k].corr_mean) /\ isnan(df[k].amp_mean)

\* C9 as stated: every Sample the ingest pass emits has a defined depth.
C9_Original == \A k \in 1..Len(recs) : ~isnan(recs[k].depth)

\* The index labels of the records with a defined depth.
ValidLabels == { k - 1 : k \in { j \in 1..Len(recs) : ~isnan(recs[j].depth) } }

\* C9 amended: every row of the SampleTable has a defined depth, because the
\* builder's drop removes the Samples emitted with an unknown depth (no
\* $PNORS line yet, or an empty pressure or blanking field) and only those.
C9_TableDepthDefined ==
    pc = "serving" =>
      /\ \A k \in 1..Len(df) : ~isnan(df[k].depth)
      /\ { df[k].index : k \in 1..Len(df) } = ValidLabels
      /\ Len(df) = Cardinality(ValidLabels)

\* The drop removed a Sample emitted before any $PNORS line and kept another.
C9_Witness ==
    /\ pc = "serving" /\ df # <<>> /\ Len(df) < Len(recs)
    /\ \E k \in 1..Len(recs) : recs[k].profile = None /\ isnan(recs[k].depth)

\* C10: an emitted Sample carries the profile_id of the most recent $PNORS
\* line before its $PNORC line; a $PNORS line changes only the profile
\* context, a $PNORI line only the configuration context, neither emits.
C10_ProfileCarried ==
    [][/\ (nread' = nread + 1 /\ recs' # recs) =>
            /\ line'[1] = "$PNORC"
            /\ Len(recs') = Len(recs) + 1
            /\ SubSeq(recs', 1, Len(recs)) = recs
            /\ recs'[Len(recs')].profile =
                 (IF lastS = <<>> THEN None ELSE lastS[3])
       /\ HeaderStep =>
            /\ recs' = recs /\ blanking' = blanking /\ cell_size' = cell_size
            /\ pc' = "ingest" => profile' = line'[3]
       /\ ConfigStep =>
            /\ recs' = recs /\ profile' = profile /\ press_m' = press_m
      ]_vars

\* Two Samples of two profiles, the later one of the latest $PNORS line.
C10_Witness ==
    /\ pc = "ingest" /\ Len(recs) >= 2
    /\ line[1] = "$PNORC" /\ lastS # <<>>
    /\ recs[Len(recs)].profile = lastS[3]
    /\ recs[1].profile # None
    /\ recs[1].profile # recs[Len(recs)].profile

====
